---- MODULE Spec2Model ----
(***************************************************************************)
(* A model of git-sub: the diff-category filter (diff_filter.rs), the      *)
(* commit frontier walker and the log pipeline (log.rs), revision-scoped   *)
(* discovery (log.rs) and the recursive status aggregator (status.rs).     *)
(* Each component has its own specification over the shared variables; a   *)
(* component that a specification does not exercise stays in its idle      *)
(* state.                                                                  *)
(***************************************************************************)
EXTENDS Integers, Sequences, FiniteSets, Bags, TLC

\* ------------------------------------------------------------------ bounds
\* Longest --diff-filter pattern drawn.
MaxPatternLen == 3
\* Commits in the forest the walker specification draws.
MaxCommits == 3
\* Committer timestamps are drawn from 1..MaxTime.
MaxTime == 2
\* Commits in the forest the log-pipeline specification draws.
MaxLogCommits == 4
\* Largest --start and --num drawn.
MaxStart == 2
MaxNum == 2
\* Repositories in the forest revision-scoped discovery walks (the root included).
MaxRevRepos == 3
\* Repositories in the forest the status aggregator walks (the root included).
MaxStatusRepos == 3
\* Most flags set in one git2::Status handed to DiffFilter::test.
MaxFlags == 2
\* Repositories in the forest `ls-files` lists (the root included).
MaxLsRepos == 3

VARIABLES
  \* diff_filter.rs
  pattern,      \* the &str handed to DiffFilter::from, a sequence of characters
  me,           \* the DiffFilter built, or NoFilter before construction
  built,        \* "none" | "from" | "default": which constructor ran
  tstatus,      \* the git2::Status handed to DiffFilter::test, a set of flags
  tresult,      \* "none" | "true" | "false": what DiffFilter::test returned
  \* log.rs: the forest as the VCS backend presents it
  repos,        \* Vec<Repository> of collect_submodules: submodules first, root last
  crepo,        \* commit -> the repository that holds it
  cparents,     \* commit -> Commit::parents()
  ctime,        \* commit -> Commit::time()
  cmsg,         \* commit -> Commit::message()
  cauthor,      \* commit -> Commit::author()
  cdiff,        \* commit -> parent -> the deltas of diff_tree_to_tree(parent, commit)
  branches,     \* the commits Repository::branches() yields, over all repositories
  headOf,       \* repository -> the commit Repository::head() peels to
  \* log.rs: collect_submodules
  dparent,      \* submodule -> the repository whose .submodules() lists it
  dstack,       \* the pending work of the recursion, innermost first
  dpc,          \* "idle" | "start" | "collect" | "collected" | a panic
  \* log.rs: LogArgs
  argAll, argGrep, argAuthor, argPathspec, argStart, argNum,
  \* log.rs: CommitsWalker and the iterator chain of show_log
  heads,        \* CommitsWalker.heads, a bag of CommitWrapper
  emitted,      \* the items CommitsWalker::next has returned, in order
  skipLeft,     \* what Iterator::skip has still to drop
  count,        \* the captured `count` of the take_while closure
  printed,      \* the commits handed to print_commit, in order
  lpc,          \* "idle" | "start" | "walk" | "done"
  \* log.rs: one call of test_pathspec
  probe,        \* the CommitWrapper handed to test_pathspec, or NoProbe
  tpResult,     \* "none" | "true" | "false": what test_pathspec returned
  \* log.rs: show_log --revision and collect_submodule_heads_with_rev
  links,        \* repository -> the commit-link entries of the walked tree, in walk order
  rstack,       \* the pending work of the recursion, innermost first
  oids,         \* Vec<Oid> `oids` of show_log (`heads` of the discovery)
  rrepos,       \* Vec<Repository> `repos` of show_log (`sub_mods` of the discovery)
  resolved,     \* for each id collected, the repository discovery resolved it in
  revHeads,     \* Vec<CommitWrapper> `heads` of show_log, as (commit, repository)
  rpc,          \* "idle" | "start" | "discover" | "seeded" | a panic
  \* status.rs: the forest, StatusArgs and the recursion of show_repo_status
  sparent,      \* submodule -> the repository whose .submodules() lists it
  spin,         \* submodule -> Submodule::head_id(): the id its parent's HEAD tree records
  mainHead,     \* the root's HEAD as main() resolved it
  sall,         \* StatusArgs.all
  sshow,        \* StatusArgs.show_option
  sfilter,      \* StatusArgs.diff_filter
  sstack,       \* the calls of show_repo_status still to make, next first
  evaluated,    \* the repositories show_repo_status ran on, in order
  blocks,       \* the repositories whose block was printed, in order
  last,         \* what the last call of show_repo_status read and decided
  spc,          \* "idle" | "start" | "run" | "done" | "exit"
  \* ls_files.rs: the forest, LsArgs and the recursion of list_files
  lparent,      \* submodule -> the repository whose tree links it
  ldir,         \* submodule -> the directory of that tree the link lies in
  lsStaged,     \* LsArgs.staged
  lsRev,        \* LsArgs.rev
  lsPathspec,   \* LsArgs.pathspec
  lstack,       \* the iterations in progress, innermost first
  listed,       \* the lines printed, in order
  lookups,      \* the calls of find_submodule made, in order
  lspc          \* "idle" | "start" | "run" | "done" | a panic

dfVars == <<pattern, me, built, tstatus, tresult>>

discVars == <<dparent, dstack, dpc>>

forestVars == <<repos, crepo, cparents, ctime, cmsg, cauthor, cdiff, branches, headOf, discVars>>

logArgVars == <<argAll, argGrep, argAuthor, argPathspec, argStart, argNum>>

walkVars == <<heads, emitted, skipLeft, count, printed, lpc>>

probeVars == <<probe, tpResult>>

logVars == <<forestVars, logArgVars, walkVars, probeVars>>

revVars == <<links, rstack, oids, rrepos, resolved, revHeads, rpc>>

statusArgVars == <<sparent, spin, sall, sshow, sfilter>>

statusVars == <<statusArgVars, mainHead, sstack, evaluated, blocks, last, spc>>

lsArgVars == <<lparent, ldir, lsStaged, lsRev, lsPathspec>>

lsVars == <<lsArgVars, lstack, listed, lookups, lspc>>

vars == <<dfVars, logVars, revVars, statusVars, lsVars>>

\* What the actions of one component leave alone.
nonDfVars == <<logVars, revVars, statusVars, lsVars>>
nonLogVars == <<dfVars, revVars, statusVars, lsVars>>
nonRevVars == <<dfVars, logVars, statusVars, lsVars>>
nonStatusVars == <<dfVars, logVars, revVars, lsVars>>
nonLsVars == <<dfVars, logVars, revVars, statusVars>>
logFixed == <<forestVars, logArgVars, probeVars, nonLogVars>>

\* ---------------------------------------------------------- diff_filter.rs
\* The characters patterns are drawn from: the twelve letters DiffFilter::from
\* tests for, and two it does not (one lowercase, one uppercase).
PatternChars == {"a", "A", "d", "D", "m", "M", "r", "R", "t", "T", "u", "U", "x", "X"}

\* char::is_uppercase on the characters above.
IsUppercase(c) == c \in {"A", "D", "M", "R", "T", "U", "X"}

NoFilter == [none |-> TRUE]

DiffFilterDefault ==
  [add |-> TRUE, deleted |-> TRUE, modified |-> TRUE,
   rename |-> TRUE, type_changed |-> TRUE, unknown |-> TRUE]

\* The struct literal DiffFilter::from starts from.
DiffFilterEmpty ==
  [add |-> FALSE, deleted |-> FALSE, modified |-> FALSE,
   rename |-> FALSE, type_changed |-> FALSE, unknown |-> FALSE]

\* A loop body that ignores lowercase letters instead of clearing the flag.
DiffFilterSetIgnoreLower(f, c) ==
  IF c = "A" THEN [f EXCEPT !.add = TRUE]
  ELSE IF c = "D" THEN [f EXCEPT !.deleted = TRUE]
  ELSE IF c = "M" THEN [f EXCEPT !.modified = TRUE]
  ELSE IF c = "R" THEN [f EXCEPT !.rename = TRUE]
  ELSE IF c = "T" THEN [f EXCEPT !.type_changed = TRUE]
  ELSE IF c = "U" THEN [f EXCEPT !.unknown = TRUE]
  ELSE f

\* A loop body whose first branch sets the wrong field.
DiffFilterSetWrongField(f, c) ==
  IF c = "a" \/ c = "A" THEN [f EXCEPT !.add = IsUppercase(c)]
  ELSE IF c = "d" \/ c = "D" THEN [f EXCEPT !.modified = IsUppercase(c)]
  ELSE IF c = "m" \/ c = "M" THEN [f EXCEPT !.modified = IsUppercase(c)]
  ELSE IF c = "r" \/ c = "R" THEN [f EXCEPT !.rename = IsUppercase(c)]
  ELSE IF c = "t" \/ c = "T" THEN [f EXCEPT !.type_changed = IsUppercase(c)]
  ELSE IF c = "u" \/ c = "U" THEN [f EXCEPT !.unknown = IsUppercase(c)]
  ELSE f

\* One iteration of the loop over s.chars().
DiffFilterSet(f, c) ==
  IF c = "a" \/ c = "A" THEN [f EXCEPT !.add = IsUppercase(c)]
  ELSE IF c = "d" \/ c = "D" THEN [f EXCEPT !.deleted = IsUppercase(c)]
  ELSE IF c = "m" \/ c = "M" THEN [f EXCEPT !.modified = IsUppercase(c)]
  ELSE IF c = "r" \/ c = "R" THEN [f EXCEPT !.rename = IsUppercase(c)]
  ELSE IF c = "t" \/ c = "T" THEN [f EXCEPT !.type_changed = IsUppercase(c)]
  ELSE IF c = "u" \/ c = "U" THEN [f EXCEPT !.unknown = IsUppercase(c)]
  ELSE f

RECURSIVE DiffFilterFold(_, _)
DiffFilterFold(f, s) ==
  IF s = <<>> THEN f ELSE DiffFilterFold(DiffFilterSet(f, Head(s)), Tail(s))

\* DiffFilter::from(s)
DiffFilterFrom(s) == DiffFilterFold(DiffFilterEmpty, s)

Patterns == UNION {[1..n -> PatternChars] : n \in 0..MaxPatternLen}

DfInit ==
  /\ pattern \in Patterns /\ me = NoFilter /\ built = "none"
  /\ tstatus = {} /\ tresult = "none"

DfIdle ==
  /\ pattern = <<>> /\ me = NoFilter /\ built = "none"
  /\ tstatus = {} /\ tresult = "none"

\* StatusArgs::from, --diff-filter given: DiffFilter::from(s)
BuildFrom ==
  /\ built = "none"
  /\ me' = DiffFilterFrom(pattern)
  /\ built' = "from"
  /\ UNCHANGED <<pattern, tstatus, tresult, nonDfVars>>

\* StatusArgs::from, no --diff-filter: DiffFilter::default()
BuildDefault ==
  /\ built = "none"
  /\ me' = DiffFilterDefault
  /\ built' = "default"
  /\ UNCHANGED <<pattern, tstatus, tresult, nonDfVars>>


\* git2::Status is a set of flags.
StatusFlags ==
  {"INDEX_NEW", "INDEX_MODIFIED", "INDEX_DELETED", "INDEX_RENAMED", "INDEX_TYPECHANGE",
   "WT_NEW", "WT_MODIFIED", "WT_DELETED", "WT_TYPECHANGE", "WT_RENAMED",
   "IGNORED", "CONFLICTED"}

\* A test that looks at the rename flags before the modification flags.
DiffFilterTestRenamedFirst(f, status) ==
  IF "INDEX_NEW" \in status \/ "WT_NEW" \in status THEN f.add
  ELSE IF "INDEX_RENAMED" \in status \/ "WT_RENAMED" \in status THEN f.rename
  ELSE IF "INDEX_MODIFIED" \in status \/ "WT_MODIFIED" \in status THEN f.modified
  ELSE IF "INDEX_DELETED" \in status \/ "WT_DELETED" \in status THEN f.deleted
  ELSE IF "INDEX_TYPECHANGE" \in status \/ "WT_TYPECHANGE" \in status THEN f.type_changed
  ELSE f.unknown

\* DiffFilter::test(status)
DiffFilterTest(f, status) ==
  IF "INDEX_NEW" \in status \/ "WT_NEW" \in status THEN f.add
  ELSE IF "INDEX_MODIFIED" \in status \/ "WT_MODIFIED" \in status THEN f.modified
  ELSE IF "INDEX_DELETED" \in status \/ "WT_DELETED" \in status THEN f.deleted
  ELSE IF "INDEX_RENAMED" \in status \/ "WT_RENAMED" \in status THEN f.rename
  ELSE IF "INDEX_TYPECHANGE" \in status \/ "WT_TYPECHANGE" \in status THEN f.type_changed
  ELSE f.unknown

\* The patterns that enable each subset of the six categories.
RECURSIVE UpperPatterns(_)
UpperPatterns(letters) ==
  IF letters = <<>> THEN {<<>>}
  ELSE LET rest == UpperPatterns(Tail(letters))
       IN rest \cup {<<Head(letters)>> \o q : q \in rest}

\* A filter built by DiffFilter::from, before any call of test.
TestInit ==
  /\ pattern \in UpperPatterns(<<"A", "D", "M", "R", "T", "U">>)
  /\ me = DiffFilterFrom(pattern)
  /\ built = "from"
  /\ tstatus = {} /\ tresult = "none"

\* One call of DiffFilter::test on the filter built.
TestCall ==
  /\ built # "none"
  /\ tresult = "none"
  /\ \E status \in {st \in SUBSET StatusFlags : Cardinality(st) <= MaxFlags} :
       /\ tstatus' = status
       /\ tresult' = IF DiffFilterTest(me, status) THEN "true" ELSE "false"
  /\ UNCHANGED <<pattern, me, built, nonDfVars>>

\* ------------------------------------------------- claims on diff_filter.rs
\* The characters DiffFilter::from tests for.
FilterLetters == {"a", "A", "d", "D", "m", "M", "r", "R", "t", "T", "u", "U"}

IsLowercase(c) == c \in {"a", "d", "m", "r", "t", "u", "x"}

CharsOf(s) == {s[i] : i \in DOMAIN s}

OnlyFilterLetters(s) == SelectSeq(s, LAMBDA c : c \in FilterLetters)

RemoveLowercase(s) == SelectSeq(s, LAMBDA c : ~IsLowercase(c))

\* The last occurrence in s of the letter lo/up, in either case, is uppercase.
LastIsUpper(s, lo, up) ==
  \E i \in DOMAIN s :
    /\ s[i] = up
    /\ \A j \in DOMAIN s : j > i => s[j] \notin {lo, up}

\* Some lowercase letter of s follows an uppercase occurrence of the same letter.
LowerAfterUpper(s) ==
  \E i, j \in DOMAIN s :
    /\ i < j
    /\ <<s[j], s[i]>> \in {<<"a", "A">>, <<"d", "D">>, <<"m", "M">>,
                           <<"r", "R">>, <<"t", "T">>, <<"u", "U">>}

\* C9: DiffFilter::default yields all six flags enabled; DiffFilter::from starts
\* from all six disabled, from("AdM") yields exactly Added and Modified, a flag
\* is enabled after from(s) only if its uppercase letter occurs in s, and the
\* characters from() does not test for change nothing.
C9_FromAndDefault ==
  /\ built = "default" =>
       /\ me.add /\ me.deleted /\ me.modified
       /\ me.rename /\ me.type_changed /\ me.unknown
  /\ built = "from" =>
       /\ CharsOf(pattern) \cap FilterLetters = {} =>
            /\ ~me.add /\ ~me.deleted /\ ~me.modified
            /\ ~me.rename /\ ~me.type_changed /\ ~me.unknown
       /\ pattern = <<"A", "d", "M">> =>
            /\ me.add /\ ~me.deleted /\ me.modified
            /\ ~me.rename /\ ~me.type_changed /\ ~me.unknown
       /\ me.add => "A" \in CharsOf(pattern)
       /\ me.deleted => "D" \in CharsOf(pattern)
       /\ me.modified => "M" \in CharsOf(pattern)
       /\ me.rename => "R" \in CharsOf(pattern)
       /\ me.type_changed => "T" \in CharsOf(pattern)
       /\ me.unknown => "U" \in CharsOf(pattern)
       /\ me = DiffFilterFrom(OnlyFilterLetters(pattern))

C9_Witness ==
  /\ built = "from"
  /\ pattern = <<"A", "d", "M">>
  /\ me.add /\ me.modified /\ ~me.deleted

CategoryOrder == <<"NEW", "MODIFIED", "DELETED", "RENAMED", "TYPECHANGE">>

CategoryFlags(k) ==
  CASE k = "NEW" -> {"INDEX_NEW", "WT_NEW"}
    [] k = "MODIFIED" -> {"INDEX_MODIFIED", "WT_MODIFIED"}
    [] k = "DELETED" -> {"INDEX_DELETED", "WT_DELETED"}
    [] k = "RENAMED" -> {"INDEX_RENAMED", "WT_RENAMED"}
    [] k = "TYPECHANGE" -> {"INDEX_TYPECHANGE", "WT_TYPECHANGE"}

InCategory(status, k) == CategoryFlags(k) \cap status # {}

BoolStr(b) == IF b THEN "true" ELSE "false"

CategoryOf(status) ==
  IF \E i \in DOMAIN CategoryOrder : InCategory(status, CategoryOrder[i])
  THEN CategoryOrder[CHOOSE i \in DOMAIN CategoryOrder :
         /\ InCategory(status, CategoryOrder[i])
         /\ \A j \in 1..(i - 1) : ~InCategory(status, CategoryOrder[j])]
  ELSE "UNKNOWN"

FlagOf(f, category) ==
  CASE category = "NEW" -> f.add
    [] category = "MODIFIED" -> f.modified
    [] category = "DELETED" -> f.deleted
    [] category = "RENAMED" -> f.rename
    [] category = "TYPECHANGE" -> f.type_changed
    [] category = "UNKNOWN" -> f.unknown

\* C11: DiffFilter::test returns the flag of the first category, in the order
\* Added, Modified, Deleted, Renamed, TypeChanged, that the status belongs to
\* by its index or worktree flag, and the Unknown flag when it belongs to
\* none; a status both renamed and modified is decided by the Modified flag.
C11_FirstCategoryWins ==
  tresult # "none" =>
    /\ tresult = BoolStr(FlagOf(me, CategoryOf(tstatus)))
    /\ ({"INDEX_RENAMED", "WT_MODIFIED"} \subseteq tstatus /\ "WT_NEW" \notin tstatus
          /\ "INDEX_NEW" \notin tstatus)
         => tresult = BoolStr(me.modified)
    /\ tstatus \subseteq {"IGNORED", "CONFLICTED"} => tresult = BoolStr(me.unknown)

\* A renamed and modified status under a filter that enables Modified and
\* disables Renamed passes.
C11_Witness ==
  /\ tstatus = {"INDEX_RENAMED", "WT_MODIFIED"}
  /\ me.modified /\ ~me.rename
  /\ tresult = "true"

\* ------------------------------------------------------------------ log.rs
\* Option<T>: None is the empty set, Some(x) the singleton.
None == {}
Some(x) == {x}
Unwrap(o) == CHOOSE x \in o : TRUE

\* Paths are sequences of components.
IsPrefix(a, b) == Len(a) <= Len(b) /\ SubSeq(b, 1, Len(a)) = a

\* Path::join with a relative argument.
PathJoin(base, rel) == base \o rel

\* Path::strip_prefix(base).unwrap(); every work directory of the forest lies
\* under the root's, so the Err branch (a panic) is never taken.
StripPrefix(path, base) ==
  IF IsPrefix(base, path) THEN SubSeq(path, Len(base) + 1, Len(path)) ELSE path

\* The root's work directory, and the place of the one submodule of the log
\* forest under it.
RootWorkdir == <<"w">>
SubMount == <<"libs", "foo">>

\* Repository::workdir()
Workdir(r) == IF r = "root" THEN RootWorkdir ELSE PathJoin(RootWorkdir, SubMount)

Commits == DOMAIN ctime

\* CommitWrapper::new(c, repo_path, repo)
CommitWrapperNew(c, repo_path, repo) == [c |-> c, t |-> ctime[c], p |-> repo_path, r |-> repo]

\* impl PartialEq for CommitWrapper
CommitWrapperEq(a, b) == a.t = b.t

\* An ordering that compares the commit ids instead of the timestamps.
CommitWrapperLeById(a, b) == a.c <= b.c

\* impl Ord for CommitWrapper, as a <= b
CommitWrapperLe(a, b) == a.t <= b.t

\* A pop that yields an entry only when it is strictly the greatest.
HeapMaxStrict(h) ==
  {e \in BagToSet(h) : \A f \in BagToSet(h) : f # e => ~CommitWrapperLe(e, f)}

\* The entries BinaryHeap::pop / peek may return: the greatest by Ord. Which of
\* several equal ones comes first is the heap's own business.
HeapMax(h) == {e \in BagToSet(h) : \A f \in BagToSet(h) : CommitWrapperLe(f, e)}

HeapPush(h, e) == h (+) SetToBag({e})

HeapRemove(h, e) == h (-) SetToBag({e})

\* The loop of CommitsWalker::next: while the peeked entry == latest, pop it.
RECURSIVE CollapseLoop(_, _)
CollapseLoop(h, latest) ==
  IF \E c \in HeapMax(h) : CommitWrapperEq(c, latest)
  THEN CollapseLoop(HeapRemove(h, CHOOSE c \in HeapMax(h) : CommitWrapperEq(c, latest)), latest)
  ELSE h

\* latest.c.parents().for_each(|c| heads.push(CommitWrapper::new(c, latest.p, latest.r)))
RECURSIVE PushAll(_, _)
PushAll(h, es) ==
  IF es = {} THEN h
  ELSE LET e == CHOOSE x \in es : TRUE IN PushAll(HeapPush(h, e), es \ {e})

\* A push that stamps the parent with its child's time and the root's path.
PushParentsAsChild(h, latest) ==
  PushAll(h, {[c |-> c, t |-> latest.t, p |-> Workdir("root"), r |-> latest.r] : c \in cparents[latest.c]})

PushParents(h, latest) ==
  PushAll(h, {CommitWrapperNew(c, latest.p, latest.r) : c \in cparents[latest.c]})

\* CommitsWalker::next once `latest` was popped: the heap it leaves.
WalkerNext(h, latest) == PushParents(CollapseLoop(HeapRemove(h, latest), latest), latest)

\* Pathspec: a set of patterns. A pattern is a literal path (matching the path
\* itself and everything under it) or "<dir>/*" (matching everything under dir).
PatternMatches(pat, path) ==
  /\ IsPrefix(pat.dir, path)
  /\ pat.glob => Len(path) > Len(pat.dir)

\* Pathspec::matches_path
MatchesPath(pathspec, path) == \E pat \in pathspec : PatternMatches(pat, path)

\* A closure that matches the delta's paths as the diff gives them.
DeltaMatchesUnprefixed(e, d, pathspec, work_dir) ==
  IF d.status = "Renamed"
  THEN MatchesPath(pathspec, d.new) \/ MatchesPath(pathspec, d.old)
  ELSE MatchesPath(pathspec, d.new)

\* The closure of test_pathspec over one delta.
DeltaMatches(e, d, pathspec, work_dir) ==
  LET new_path == PathJoin(e.p, d.new) IN
  IF d.status = "Renamed"
  THEN LET old_path == PathJoin(e.p, d.old) IN
       \/ MatchesPath(pathspec, StripPrefix(new_path, work_dir))
       \/ MatchesPath(pathspec, StripPrefix(old_path, work_dir))
  ELSE MatchesPath(pathspec, StripPrefix(new_path, work_dir))

\* A test that asks every parent for a matching delta.
TestPathspecAllParents(e, pathspec, work_dir) ==
  \A p \in cparents[e.c] : \E d \in cdiff[e.c][p] : DeltaMatches(e, d, pathspec, work_dir)

\* test_pathspec(commit, pathspec, work_dir)
TestPathspec(e, pathspec, work_dir) ==
  \E p \in cparents[e.c] : \E d \in cdiff[e.c][p] : DeltaMatches(e, d, pathspec, work_dir)

\* Regex::is_match for the literal patterns and one-word texts drawn here.
IsMatch(re, text) == re = text

\* The filter closure of show_log.
Passes(e) ==
  /\ argGrep # None => IsMatch(Unwrap(argGrep), cmsg[e.c])
  /\ argAuthor # None => IsMatch(Unwrap(argAuthor), cauthor[e.c])
  /\ argPathspec # None => TestPathspec(e, Unwrap(argPathspec), Workdir("root"))

\* A take_while closure that stops one item early.
TakeWhileEarly(cnt) ==
  IF cnt # None
  THEN IF Unwrap(cnt) <= 1
       THEN [keep |-> FALSE, count |-> None]
       ELSE [keep |-> TRUE, count |-> Some(Unwrap(cnt) - 1)]
  ELSE [keep |-> TRUE, count |-> cnt]

\* The take_while closure of show_log: whether the item is kept, and `count` after.
TakeWhile(cnt) ==
  IF cnt # None
  THEN IF Unwrap(cnt) = 0
       THEN [keep |-> FALSE, count |-> None]
       ELSE [keep |-> TRUE, count |-> Some(Unwrap(cnt) - 1)]
  ELSE [keep |-> TRUE, count |-> cnt]

\* collect_heads: one entry per branch tip with --all, else one per repository HEAD.
CollectedHeads ==
  IF argAll
  THEN {CommitWrapperNew(c, Workdir(crepo[c]), crepo[c]) : c \in branches}
  ELSE {CommitWrapperNew(headOf[r], Workdir(r), r) : r \in DOMAIN headOf}

\* show_log without --revision, up to CommitsWalker::new(heads).
CollectHeads ==
  /\ lpc = "start"
  /\ heads' = SetToBag(CollectedHeads)
  /\ skipLeft' = IF argStart = None THEN 0 ELSE Unwrap(argStart)
  /\ count' = argNum
  /\ lpc' = "walk"
  /\ UNCHANGED <<emitted, printed, logFixed>>

\* One item pulled through filter, skip, take_while and for_each.
LogPull ==
  /\ lpc = "walk"
  /\ UNCHANGED logFixed
  /\ \E latest \in HeapMax(heads) :
       /\ heads' = WalkerNext(heads, latest)
       /\ emitted' = Append(emitted, latest)
       /\ IF ~Passes(latest)
          THEN UNCHANGED <<skipLeft, count, printed, lpc>>
          ELSE IF skipLeft > 0
          THEN skipLeft' = skipLeft - 1 /\ UNCHANGED <<count, printed, lpc>>
          ELSE LET tw == TakeWhile(count) IN
               /\ count' = tw.count
               /\ printed' = IF tw.keep THEN Append(printed, latest) ELSE printed
               /\ lpc' = IF tw.keep THEN lpc ELSE "done"
               /\ UNCHANGED skipLeft

\* CommitsWalker::next finds the heap empty and returns None: the chain ends.
LogEnd ==
  /\ lpc = "walk"
  /\ heads = EmptyBag
  /\ lpc' = "done"
  /\ UNCHANGED <<heads, emitted, skipLeft, count, printed, logFixed>>


\* ------------------------------------------------------- the forests drawn
\* Commits are numbered so that the first k belong to the root and the rest to
\* the submodule, and parents have smaller numbers than their children (the
\* graphs are acyclic). k = n is a root without submodules.
RepoOfCommit(n, k) == [c \in 1..n |-> IF c <= k THEN "root" ELSE "sub"]

ReposCollected(n, k) == IF k = n THEN <<"root">> ELSE <<"sub", "root">>

ParentChoices(n, k) ==
  {ps \in [1..n -> SUBSET (1..n)] :
     \A c \in 1..n :
       /\ Cardinality(ps[c]) <= 2
       /\ \A d \in ps[c] : d < c /\ RepoOfCommit(n, k)[d] = RepoOfCommit(n, k)[c]}

\* A first-parent chain in each repository.
ChainParents(n, k) == [c \in 1..n |-> IF c = 1 \/ c = k + 1 THEN {} ELSE {c - 1}]

CommitsOf(r) == {c \in Commits : crepo[c] = r}

Newest(cs) == CHOOSE c \in cs : \A d \in cs : d <= c

\* What the tree diff of a commit against one parent shows: a commit of the
\* root touches src/main.rs, a commit of the submodule its own lib.rs.
PlainDelta(r) ==
  IF r = "root"
  THEN [status |-> "Modified", new |-> <<"src", "main.rs">>, old |-> <<"src", "main.rs">>]
  ELSE [status |-> "Modified", new |-> <<"lib.rs">>, old |-> <<"lib.rs">>]

PlainDiffs == [c \in Commits |-> [p \in cparents[c] |-> {PlainDelta(crepo[c])}]]

Messages == {"fix", "feat"}
AuthorOfRepo(r) == IF r = "root" THEN "ann" ELSE "bob"

LibsGlob == {[dir |-> <<"libs">>, glob |-> TRUE]}
SrcGlob == {[dir |-> <<"src">>, glob |-> TRUE]}

RepoSet == {repos[i] : i \in DOMAIN repos}

\* The seeds: with --all any set of branch tips (HEAD on the newest commit of
\* each repository); without, any HEAD per repository, its branch the only one.
SeedInit ==
  \/ /\ argAll = TRUE
     /\ branches \in SUBSET Commits
     /\ headOf = [r \in RepoSet |-> Newest(CommitsOf(r))]
  \/ /\ argAll = FALSE
     /\ headOf \in [RepoSet -> Commits]
     /\ \A r \in RepoSet : crepo[headOf[r]] = r
     /\ branches = {headOf[r] : r \in RepoSet}

NoProbe == [none |-> TRUE]

\* collect_submodules has returned `repos`.
DiscIdle == dparent = <<>> /\ dstack = <<>> /\ dpc = "idle"

ProbeIdle == probe = NoProbe /\ tpResult = "none" /\ DiscIdle

WalkerStart ==
  /\ heads = EmptyBag /\ emitted = <<>> /\ printed = <<>>
  /\ skipLeft = 0 /\ count = None /\ lpc = "start"
  /\ ProbeIdle

\* `git-sub log [--all]` over every forest of MaxCommits commits.
WalkInit ==
  /\ \E k \in 1..MaxCommits :
       /\ repos = ReposCollected(MaxCommits, k)
       /\ crepo = RepoOfCommit(MaxCommits, k)
       /\ cparents \in ParentChoices(MaxCommits, k)
  /\ ctime \in [1..MaxCommits -> 1..MaxTime]
  /\ cmsg = [c \in Commits |-> "fix"]
  /\ cauthor = [c \in Commits |-> AuthorOfRepo(crepo[c])]
  /\ cdiff = PlainDiffs
  /\ SeedInit
  /\ argGrep = None /\ argAuthor = None /\ argPathspec = None
  /\ argStart = None /\ argNum = None
  /\ WalkerStart

\* Timestamps of the log forests: the two chains interleave, newest last.
ChainTime(n, k) == [c \in 1..n |-> IF c <= k THEN 2 * c ELSE 2 * (c - k) + 1]

\* `git-sub log` with every combination of --grep, --author, pathspec, --start
\* and --num over two chains of MaxLogCommits commits in all, HEAD on the
\* newest commit of each.
PipelineInit ==
  /\ \E k \in 1..MaxLogCommits :
       /\ repos = ReposCollected(MaxLogCommits, k)
       /\ crepo = RepoOfCommit(MaxLogCommits, k)
       /\ cparents = ChainParents(MaxLogCommits, k)
       /\ ctime = ChainTime(MaxLogCommits, k)
  /\ cmsg \in [Commits -> Messages]
  /\ cauthor = [c \in Commits |-> AuthorOfRepo(crepo[c])]
  /\ cdiff = PlainDiffs
  /\ argAll = FALSE
  /\ headOf = [r \in RepoSet |-> Newest(CommitsOf(r))]
  /\ branches = {headOf[r] : r \in RepoSet}
  /\ argGrep \in {None, Some("fix")}
  /\ argAuthor \in {None, Some("ann")}
  /\ argPathspec \in {None, Some(LibsGlob), Some(SrcGlob)}
  /\ argStart \in {None} \cup {Some(i) : i \in 0..MaxStart}
  /\ argNum \in {None} \cup {Some(i) : i \in 0..MaxNum}
  /\ WalkerStart

\* test_pathspec called on the probe with the supplied pathspec and the root's
\* work directory, as the filter closure of show_log calls it.
TestPathspecCall ==
  /\ probe # NoProbe
  /\ tpResult = "none"
  /\ tpResult' = IF TestPathspec(probe, Unwrap(argPathspec), Workdir("root"))
                 THEN "true" ELSE "false"
  /\ UNCHANGED <<probe, forestVars, logArgVars, walkVars, nonLogVars>>

\* The deltas a tree diff may show, paths relative to the commit's repository.
DeltaSamples ==
  {[status |-> "Modified", new |-> <<"lib.rs">>, old |-> <<"lib.rs">>],
   [status |-> "Added", new |-> <<"src", "a.rs">>, old |-> <<"src", "a.rs">>],
   [status |-> "Renamed", new |-> <<"doc", "a.rs">>, old |-> <<"src", "a.rs">>],
   [status |-> "Deleted", new |-> <<"libs", "x.rs">>, old |-> <<"libs", "x.rs">>]}

PathspecSamples ==
  {LibsGlob, SrcGlob,
   {[dir |-> <<"libs", "foo", "lib.rs">>, glob |-> FALSE]},
   {[dir |-> <<"doc">>, glob |-> FALSE], [dir |-> <<"lib.rs">>, glob |-> FALSE]}}

\* One commit (3) of the root or of the submodule, with no parent, one parent
\* or two, any deltas against each, tested against any sample pathspec.
PathInit ==
  /\ \E r \in {"root", "sub"} :
       /\ repos = IF r = "root" THEN <<"root">> ELSE <<"sub", "root">>
       /\ crepo = [c \in 1..3 |-> r]
       /\ probe = [c |-> 3, t |-> 3, p |-> Workdir(r), r |-> r]
  /\ cparents \in {<<{}, {}, ps>> : ps \in {{}, {1}, {1, 2}}}
  /\ ctime = <<1, 2, 3>>
  /\ cmsg = [c \in 1..3 |-> "fix"]
  /\ cauthor = [c \in 1..3 |-> AuthorOfRepo(crepo[c])]
  /\ \E ds \in [cparents[3] -> SUBSET DeltaSamples] :
       cdiff = <<<<>>, <<>>, ds>>
  /\ branches = {3} /\ headOf = <<>> /\ argAll = TRUE
  /\ argGrep = None /\ argAuthor = None
  /\ argPathspec \in {Some(ps) : ps \in PathspecSamples}
  /\ argStart = None /\ argNum = None
  /\ heads = EmptyBag /\ emitted = <<>> /\ printed = <<>>
  /\ skipLeft = 0 /\ count = None /\ lpc = "idle"
  /\ tpResult = "none"
  /\ DiscIdle

\* The log component when a specification does not run it.
LogIdle ==
  /\ repos = <<>> /\ crepo = <<>> /\ cparents = <<>> /\ ctime = <<>>
  /\ cmsg = <<>> /\ cauthor = <<>> /\ cdiff = <<>>
  /\ branches = {} /\ headOf = <<>>
  /\ argAll = FALSE /\ argGrep = None /\ argAuthor = None /\ argPathspec = None
  /\ argStart = None /\ argNum = None
  /\ heads = EmptyBag /\ emitted = <<>> /\ printed = <<>>
  /\ skipLeft = 0 /\ count = None /\ lpc = "idle"
  /\ ProbeIdle

\* --------------------------------------------- log.rs: show_log --revision
\* Repositories of this forest are numbered, the root is 1. A commit id names
\* the repository whose object database holds it. A commit-link entry records
\* the submodule it links, the pinned id, the directory of the tree it lies in
\* and its own name.
RevRoot == 1

\* The revision of the root that --revision names.
RootRev == <<RevRoot, 1>>

\* Repository::find_commit(id) succeeds.
HasCommit(repo, id) == id[1] = repo

\* The path of a commit-link entry inside its repository.
LinkPath(l) == Append(l.dir, l.name)

\* Repository::find_submodule(name): the submodules registered under that name
\* or path (a submodule is registered under its path).
FindSubmodule(repo, name) ==
  {l \in {links[repo][i] : i \in DOMAIN links[repo]} : LinkPath(l) = name}

\* What the tree-walk callback hands to find_submodule: e.name().
EntryLookup(l) == <<l.name>>

EntryFrames(repo) == [i \in DOMAIN links[repo] |-> [kind |-> "entry", repo |-> repo, link |-> links[repo][i]]]

\* What remains to do for an entry once its id is pushed: the recursive call
\* on the submodule's tree, then sub_mods.push(sub).
FramesAfterEntry(sub) == EntryFrames(sub) \o <<[kind |-> "push", sub |-> sub]>>

\* show_log with --revision, up to the call of collect_submodule_heads_with_rev
\* on the root's revision.
RevStart ==
  /\ rpc = "start"
  /\ rstack' = EntryFrames(RevRoot)
  /\ rpc' = "discover"
  /\ UNCHANGED <<links, oids, rrepos, resolved, revHeads, nonRevVars>>

\* The tree-walk callback on one commit-link entry, up to the recursive call.
RevEntry ==
  /\ rpc = "discover"
  /\ rstack # <<>>
  /\ Head(rstack).kind = "entry"
  /\ LET f == Head(rstack)
         found == FindSubmodule(f.repo, EntryLookup(f.link)) IN
     IF found = {}
     THEN /\ rpc' = "panic: Find submodule failed"
          /\ UNCHANGED <<rstack, oids, rrepos, resolved>>
     ELSE LET sub == (CHOOSE l \in found : TRUE).sub IN
          IF ~HasCommit(sub, f.link.id)
          THEN /\ rpc' = "panic: Can't find commit in the submodule"
               /\ UNCHANGED <<rstack, oids, rrepos, resolved>>
          ELSE /\ oids' = Append(oids, f.link.id)
               /\ resolved' = Append(resolved, sub)
               /\ rstack' = FramesAfterEntry(sub) \o Tail(rstack)
               /\ UNCHANGED <<rrepos, rpc>>
  /\ UNCHANGED <<links, revHeads, nonRevVars>>

\* The submodule of the entry is found and open() fails: expect() panics.
RevOpenFail ==
  /\ rpc = "discover"
  /\ rstack # <<>>
  /\ Head(rstack).kind = "entry"
  /\ FindSubmodule(Head(rstack).repo, EntryLookup(Head(rstack).link)) # {}
  /\ rpc' = "panic: Open submodule failed"
  /\ UNCHANGED <<links, rstack, oids, rrepos, resolved, revHeads, nonRevVars>>

\* The callback after the recursive call returned: sub_mods.push(sub).
RevReturn ==
  /\ rpc = "discover"
  /\ rstack # <<>>
  /\ Head(rstack).kind = "push"
  /\ rrepos' = Append(rrepos, Head(rstack).sub)
  /\ rstack' = Tail(rstack)
  /\ UNCHANGED <<links, oids, resolved, revHeads, rpc, nonRevVars>>

\* show_log after the discovery: the root's revision and the root are pushed,
\* and heads[i] is repos[i].find_commit(oids[i]) wrapped with repos[i].
RevSeed ==
  /\ rpc = "discover"
  /\ rstack = <<>>
  /\ LET os == Append(oids, RootRev)
         rs == Append(rrepos, RevRoot) IN
     /\ oids' = os
     /\ rrepos' = rs
     /\ resolved' = Append(resolved, RevRoot)
     /\ IF \A i \in DOMAIN os : HasCommit(rs[i], os[i])
        THEN /\ revHeads' = [i \in DOMAIN os |-> [c |-> os[i], r |-> rs[i]]]
             /\ rpc' = "seeded"
        ELSE /\ revHeads' = LET bad == CHOOSE i \in DOMAIN os :
                                         /\ ~HasCommit(rs[i], os[i])
                                         /\ \A j \in 1..(i - 1) : HasCommit(rs[j], os[j])
                            IN [i \in 1..(bad - 1) |-> [c |-> os[i], r |-> rs[i]]]
             /\ rpc' = "panic: Can't find the commit in submodule"
  /\ UNCHANGED <<links, rstack, nonRevVars>>

\* The forests drawn: every tree of MaxRevRepos repositories in which a
\* submodule has a larger number than the repository that links it; each link
\* pins one of two commits of its submodule and lies at the top of the tree or
\* in the directory libs.
RevParents ==
  {pf \in [2..MaxRevRepos -> 1..MaxRevRepos] : \A r \in 2..MaxRevRepos : pf[r] < r}

RECURSIVE LinksOf(_, _, _, _, _)
LinksOf(repo, pf, pin, dir, from) ==
  IF from > MaxRevRepos THEN <<>>
  ELSE (IF pf[from] = repo
        THEN <<[sub |-> from, id |-> <<from, pin[from]>>, dir |-> dir[from], name |-> from]>>
        ELSE <<>>) \o LinksOf(repo, pf, pin, dir, from + 1)

RevInit ==
  /\ \E pf \in RevParents :
     \E pin \in [2..MaxRevRepos -> {1, 2}] :
     \E dir \in [2..MaxRevRepos -> {<<>>, <<"libs">>}] :
       links = [r \in 1..MaxRevRepos |-> LinksOf(r, pf, pin, dir, 2)]
  /\ rstack = <<>> /\ oids = <<>> /\ rrepos = <<>> /\ resolved = <<>>
  /\ revHeads = <<>> /\ rpc = "start"

RevIdle ==
  /\ links = <<>> /\ rstack = <<>> /\ oids = <<>> /\ rrepos = <<>>
  /\ resolved = <<>> /\ revHeads = <<>> /\ rpc = "idle"

\* ------------------------------------------------ log.rs: collect_submodules
\* Repositories are numbered as in the revision forest, the root is RevRoot.
\* A frame is the closure of map() about to open a submodule, or the
\* repos.push(repo) that ends a call.
RECURSIVE OpenFrames(_, _)
OpenFrames(repo, from) ==
  IF from > MaxRevRepos THEN <<>>
  ELSE (IF dparent[from] = repo THEN <<[kind |-> "open", repo |-> from]>> ELSE <<>>)
         \o OpenFrames(repo, from + 1)

\* collect_submodules(repo) on an open repository: its submodules in turn,
\* then the repository itself.
CollectSubmodules(repo) == OpenFrames(repo, 2) \o <<[kind |-> "push", repo |-> repo]>>

\* show_log without --revision calls collect_submodules(repo).
DiscStart ==
  /\ dpc = "start"
  /\ dstack' = CollectSubmodules(RevRoot)
  /\ dpc' = "collect"
  /\ UNCHANGED <<repos, dparent, crepo, cparents, ctime, cmsg, cauthor, cdiff, branches, headOf>>
  /\ UNCHANGED <<logArgVars, walkVars, probeVars, nonLogVars>>

\* s.open() succeeds and the recursive call begins.
DiscOpen ==
  /\ dpc = "collect"
  /\ dstack # <<>>
  /\ Head(dstack).kind = "open"
  /\ dstack' = CollectSubmodules(Head(dstack).repo) \o Tail(dstack)
  /\ UNCHANGED <<repos, dparent, dpc, crepo, cparents, ctime, cmsg, cauthor, cdiff, branches, headOf>>
  /\ UNCHANGED <<logArgVars, walkVars, probeVars, nonLogVars>>

\* s.open().expect("Open submodules failed") panics.
DiscOpenFail ==
  /\ dpc = "collect"
  /\ dstack # <<>>
  /\ Head(dstack).kind = "open"
  /\ dpc' = "panic: Open submodules failed"
  /\ UNCHANGED <<repos, dparent, dstack, crepo, cparents, ctime, cmsg, cauthor, cdiff, branches, headOf>>
  /\ UNCHANGED <<logArgVars, walkVars, probeVars, nonLogVars>>

\* repos.push(repo); the caller extends its own vector with the result.
DiscPush ==
  /\ dpc = "collect"
  /\ dstack # <<>>
  /\ Head(dstack).kind = "push"
  /\ repos' = Append(repos, Head(dstack).repo)
  /\ dstack' = Tail(dstack)
  /\ UNCHANGED <<dparent, dpc, crepo, cparents, ctime, cmsg, cauthor, cdiff, branches, headOf>>
  /\ UNCHANGED <<logArgVars, walkVars, probeVars, nonLogVars>>

\* The outermost call returns the vector.
DiscDone ==
  /\ dpc = "collect"
  /\ dstack = <<>>
  /\ dpc' = "collected"
  /\ UNCHANGED <<repos, dparent, dstack, crepo, cparents, ctime, cmsg, cauthor, cdiff, branches, headOf>>
  /\ UNCHANGED <<logArgVars, walkVars, probeVars, nonLogVars>>

\* `git-sub log` over every tree of MaxRevRepos repositories, before the
\* discovery of the repositories.
DiscInit ==
  /\ repos = <<>> /\ crepo = <<>> /\ cparents = <<>> /\ ctime = <<>>
  /\ cmsg = <<>> /\ cauthor = <<>> /\ cdiff = <<>>
  /\ branches = {} /\ headOf = <<>>
  /\ argAll = FALSE /\ argGrep = None /\ argAuthor = None /\ argPathspec = None
  /\ argStart = None /\ argNum = None
  /\ heads = EmptyBag /\ emitted = <<>> /\ printed = <<>>
  /\ skipLeft = 0 /\ count = None /\ lpc = "idle"
  /\ probe = NoProbe /\ tpResult = "none"
  /\ dparent \in RevParents
  /\ dstack = <<>> /\ dpc = "start"

\* --------------------------------------------------------------- status.rs
Oids == {"X", "Y"}

StatusRoot == 1

StatusRepos == 1..MaxStatusRepos

\* Repository::submodules() of a repository, in order.
RECURSIVE SubmodulesFrom(_, _)
SubmodulesFrom(repo, from) ==
  IF from > MaxStatusRepos THEN <<>>
  ELSE (IF sparent[from] = repo THEN <<from>> ELSE <<>>) \o SubmodulesFrom(repo, from + 1)

Submodules(repo) == SubmodulesFrom(repo, 2)

\* What the backend may report for a repository: staged changes (head to
\* index) and unstaged ones (index to work directory). An entry carries its
\* status flags and whether it is a submodule of the repository.
IndexEntries(repo) ==
  {[st |-> {"INDEX_NEW"}, sub |-> FALSE]}
    \cup (IF Submodules(repo) # <<>> THEN {[st |-> {"INDEX_MODIFIED"}, sub |-> TRUE]} ELSE {})

WorktreeEntries(repo) ==
  {[st |-> {"WT_MODIFIED"}, sub |-> FALSE]}
    \cup (IF Submodules(repo) # <<>> THEN {[st |-> {"WT_MODIFIED"}, sub |-> TRUE]} ELSE {})

\* Repository::statuses under the options StatusArgs::from sets:
\* exclude_submodules(true) drops the entries of submodules.
Statuses(raw) == {e \in raw : ~e.sub}

\* index_stat_vec of show_repo_status.
IndexStatVec(show, raw) ==
  IF show \in {"Both", "Index"}
  THEN {e \in Statuses(raw) : DiffFilterTest(sfilter, e.st)}
  ELSE {}

\* work_tree_stat_vec of show_repo_status.
WorkTreeStatVec(show, raw) ==
  IF show \in {"Both", "WorkTree"}
  THEN {e \in Statuses(raw) : DiffFilterTest(sfilter, e.st)}
  ELSE {}

\* The condition that forgets the repository state.
SelectedIgnoringState(all, index_stat_vec, work_tree_stat_vec, state, head_id, head) ==
  \/ all
  \/ index_stat_vec # {}
  \/ work_tree_stat_vec # {}
  \/ head_id # head

\* The condition under which show_repo_status prints the block.
Selected(all, index_stat_vec, work_tree_stat_vec, state, head_id, head) ==
  \/ all
  \/ index_stat_vec # {}
  \/ work_tree_stat_vec # {}
  \/ state # "Clean"
  \/ head_id # head

\* A recursion that hands the caller's own pin down.
ChildPinInherited(head, sub) == head

\* The pin handed to the recursive call: sub.head_id(); `head` is the caller's own.
ChildPin(head, sub) == spin[sub]

\* A recursion made only from a repository whose block was printed.
RecurseIfSelected(repo, head, selected) ==
  IF selected
  THEN [i \in DOMAIN Submodules(repo) |->
          [repo |-> Submodules(repo)[i], head |-> ChildPin(head, Submodules(repo)[i])]]
  ELSE <<>>

\* The loop over repo.submodules(): one call of show_repo_status per submodule.
Recurse(repo, head, selected) ==
  [i \in DOMAIN Submodules(repo) |->
     [repo |-> Submodules(repo)[i], head |-> ChildPin(head, Submodules(repo)[i])]]

NoVisit == [none |-> TRUE]

\* A main() that hands the root a pin other than its own HEAD.
StatusStartOtherPin ==
  /\ spc = "start"
  /\ sstack' = <<[repo |-> StatusRoot, head |-> CHOOSE o \in Oids : o # mainHead]>>
  /\ spc' = "run"
  /\ UNCHANGED <<statusArgVars, mainHead, evaluated, blocks, last, nonStatusVars>>

\* main(): show_repo_status(&repo, &work_dir_path, <the root's HEAD>, &mut a)
StatusStart ==
  /\ spc = "start"
  /\ sstack' = <<[repo |-> StatusRoot, head |-> mainHead]>>
  /\ spc' = "run"
  /\ UNCHANGED <<statusArgVars, mainHead, evaluated, blocks, last, nonStatusVars>>

\* One call of show_repo_status on an opened repository, up to its loop over
\* the submodules: the two status sets, the HEAD, the block, and the calls the
\* loop will make.
StatusVisit ==
  /\ spc = "run"
  /\ sstack # <<>>
  /\ LET f == Head(sstack) IN
     \E head_id \in (IF f.repo = StatusRoot THEN {mainHead} ELSE Oids) :
     \E state \in {"Clean", "Merge"} :
     \E rawIndex \in SUBSET IndexEntries(f.repo) :
     \E rawWt \in SUBSET WorktreeEntries(f.repo) :
       LET index_stat_vec == IndexStatVec(sshow, rawIndex)
           work_tree_stat_vec == WorkTreeStatVec(sshow, rawWt)
           selected == Selected(sall, index_stat_vec, work_tree_stat_vec, state, head_id, f.head)
       IN
       /\ last' = [repo |-> f.repo, head |-> f.head, head_id |-> head_id, state |-> state,
                   rawIndex |-> rawIndex, rawWt |-> rawWt,
                   index |-> index_stat_vec, wt |-> work_tree_stat_vec,
                   selected |-> selected,
                   drift |-> selected /\ head_id # f.head]
       /\ blocks' = IF selected THEN Append(blocks, f.repo) ELSE blocks
       /\ evaluated' = Append(evaluated, f.repo)
       /\ sstack' = Recurse(f.repo, f.head, selected) \o Tail(sstack)
  /\ UNCHANGED <<statusArgVars, mainHead, spc, nonStatusVars>>

\* A loop that passes over a submodule it cannot open.
StatusOpenSkip ==
  /\ spc = "run"
  /\ sstack # <<>>
  /\ Head(sstack).repo # StatusRoot
  /\ sstack' = Tail(sstack)
  /\ UNCHANGED <<statusArgVars, mainHead, spc, evaluated, blocks, last, nonStatusVars>>

\* sub.open() fails in the loop: err_exit!("Open repo failed, not a git repo?").
StatusOpenFail ==
  /\ spc = "run"
  /\ sstack # <<>>
  /\ Head(sstack).repo # StatusRoot
  /\ spc' = "exit"
  /\ UNCHANGED <<statusArgVars, mainHead, sstack, evaluated, blocks, last, nonStatusVars>>

\* The outermost call returns.
StatusDone ==
  /\ spc = "run"
  /\ sstack = <<>>
  /\ spc' = "done"
  /\ UNCHANGED <<statusArgVars, mainHead, sstack, evaluated, blocks, last, nonStatusVars>>

\* The forests drawn: every tree of MaxStatusRepos repositories, any pin for
\* each submodule, and `git-sub status` with or without --all, --staged or
\* --work-tree, and --diff-filter A.
StatusInit ==
  /\ sparent \in {pf \in [2..MaxStatusRepos -> StatusRepos] : \A r \in 2..MaxStatusRepos : pf[r] < r}
  /\ spin \in [2..MaxStatusRepos -> Oids]
  /\ mainHead = "X"
  /\ sall \in BOOLEAN
  /\ sshow \in {"Both", "Index", "WorkTree"}
  /\ sfilter \in {DiffFilterDefault, DiffFilterFrom(<<"A">>)}
  /\ sstack = <<>> /\ evaluated = <<>> /\ blocks = <<>> /\ last = NoVisit
  /\ spc = "start"

StatusIdle ==
  /\ sparent = <<>> /\ spin = <<>> /\ mainHead = "X"
  /\ sall = FALSE /\ sshow = "Both" /\ sfilter = DiffFilterDefault
  /\ sstack = <<>> /\ evaluated = <<>> /\ blocks = <<>> /\ last = NoVisit
  /\ spc = "idle"

\* ------------------------------------------------------------- ls_files.rs
\* Repositories are numbered, the root is 1. The tree of the root holds a.rs,
\* libs/x.rs and src/main.rs, the tree of a submodule lib.rs; a submodule is
\* linked from the top of its parent's tree or from its directory libs, under
\* a name of its own, and registered under the path of its link.
LsRoot == 1

LsRepos == 1..MaxLsRepos

SubName(r) == <<"root", "foo", "bar", "baz", "qux">>[r]

\* The path of a submodule's link inside its parent.
LsLinkPath(sub) == Append(ldir[sub], SubName(sub))

Blob(dir, name) ==
  [name |-> name, kind |-> "blob", path |-> Append(dir, name), sub |-> 0, children |-> <<>>]

Link(sub) ==
  [name |-> SubName(sub), kind |-> "commit", path |-> LsLinkPath(sub), sub |-> sub, children |-> <<>>]

Dir(dir, name, children) ==
  [name |-> name, kind |-> "tree", path |-> Append(dir, name), sub |-> 0, children |-> children]

\* The commit-link entries of one directory of a repository's tree.
RECURSIVE LinksIn(_, _, _)
LinksIn(repo, dir, from) ==
  IF from > MaxLsRepos THEN <<>>
  ELSE (IF lparent[from] = repo /\ ldir[from] = dir THEN <<Link(from)>> ELSE <<>>)
         \o LinksIn(repo, dir, from + 1)

\* Commit::tree() of the commit listed in a repository: HEAD or the revision
\* given for the root (which has no src directory yet), the pinned commit for
\* a submodule.
TreeOf(repo, rev) ==
  IF repo = LsRoot
  THEN <<Blob(<<>>, "a.rs")>> \o LinksIn(repo, <<>>, 2)
         \o <<Dir(<<>>, "libs", LinksIn(repo, <<"libs">>, 2) \o <<Blob(<<"libs">>, "x.rs")>>)>>
         \o (IF rev = None THEN <<Dir(<<>>, "src", <<Blob(<<"src">>, "main.rs")>>)>> ELSE <<>>)
  ELSE LinksIn(repo, <<>>, 2) \o <<Blob(<<>>, "lib.rs")>>
         \o (IF LinksIn(repo, <<"libs">>, 2) # <<>>
             THEN <<Dir(<<>>, "libs", LinksIn(repo, <<"libs">>, 2))>> ELSE <<>>)

\* Repository::index() with nothing staged beyond HEAD: the blobs and the
\* commit links of the tree, each under its path.
RECURSIVE Flatten(_)
Flatten(entries) ==
  IF entries = <<>> THEN <<>>
  ELSE (IF Head(entries).kind = "tree" THEN Flatten(Head(entries).children) ELSE <<Head(entries)>>)
         \o Flatten(Tail(entries))

IndexOf(repo) == Flatten(TreeOf(repo, None))

\* Repository::find_submodule(path)
LsFindSubmodule(repo, path) ==
  {sub \in 2..MaxLsRepos : lparent[sub] = repo /\ LsLinkPath(sub) = path}

\* format!("{}/{}", p, e.name()) under Some(p), the name alone under None.
Extend(acc, name) == IF acc = None THEN <<name>> ELSE Append(Unwrap(acc), name)

TreeFrame(repo, entries, rel_path_by_root, rel_path_by_repo) ==
  [kind |-> "tree", repo |-> repo, entries |-> entries,
   rel_path_by_root |-> rel_path_by_root, rel_path_by_repo |-> rel_path_by_repo]

IndexFrame(repo, entries) ==
  [kind |-> "index", repo |-> repo, entries |-> entries,
   rel_path_by_root |-> None, rel_path_by_repo |-> None]

\* list_commit_file(repo, commit, base_path, args): list_tree on the commit's
\* tree with base_path as the root-relative accumulator and no repository-
\* relative one.
ListCommitFile(repo, rev, base_path) == TreeFrame(repo, TreeOf(repo, rev), base_path, None)

\* The Commit arm of list_tree once the submodule is open.
TreeLinkFrame(sub, sub_name, sub_repo_base) == ListCommitFile(sub, None, Some(sub_name))

\* The blob arm of list_tree: whether the line is printed.
TreeBlobPrinted(pathspec, sub_name) ==
  pathspec = None \/ MatchesPath(Unwrap(pathspec), sub_name)

\* The frame on top with its first entry taken.
Advance(stack) == <<[Head(stack) EXCEPT !.entries = Tail(@)]>> \o Tail(stack)

Line(out, repo, e) == [out |-> out, repo |-> repo, path |-> e.path]

\* list_files: the index of the root with --staged, else the tree of --rev or HEAD.
LsStart ==
  /\ lspc = "start"
  /\ lstack' = IF lsStaged
               THEN <<IndexFrame(LsRoot, IndexOf(LsRoot))>>
               ELSE <<ListCommitFile(LsRoot, lsRev, None)>>
  /\ lspc' = "run"
  /\ UNCHANGED <<lsArgVars, listed, lookups, nonLsVars>>

\* One turn of the closure of list_tree, the submodule (if any) opening.
LsTreeEntry ==
  /\ lspc = "run"
  /\ lstack # <<>>
  /\ Head(lstack).kind = "tree"
  /\ Head(lstack).entries # <<>>
  /\ LET f == Head(lstack)
         e == Head(f.entries)
         sub_name == Extend(f.rel_path_by_root, e.name)
         sub_repo_base == Extend(f.rel_path_by_repo, e.name)
     IN
     CASE e.kind = "commit" ->
            /\ lookups' = Append(lookups, [repo |-> f.repo, key |-> sub_repo_base, link |-> e.path])
            /\ IF LsFindSubmodule(f.repo, sub_repo_base) = {}
               THEN /\ lspc' = "panic: Find submodule failed"
                    /\ UNCHANGED <<lstack, listed>>
               ELSE LET sub == CHOOSE x \in LsFindSubmodule(f.repo, sub_repo_base) : TRUE IN
                    /\ lstack' = <<TreeLinkFrame(sub, sub_name, sub_repo_base)>> \o Advance(lstack)
                    /\ UNCHANGED <<listed, lspc>>
       [] e.kind = "tree" ->
            /\ lstack' = <<TreeFrame(f.repo, e.children, Some(sub_name), Some(sub_repo_base))>>
                           \o Advance(lstack)
            /\ UNCHANGED <<listed, lookups, lspc>>
       [] e.kind = "blob" ->
            /\ listed' = IF TreeBlobPrinted(lsPathspec, sub_name)
                         THEN Append(listed, Line(sub_name, f.repo, e))
                         ELSE listed
            /\ lstack' = Advance(lstack)
            /\ UNCHANGED <<lookups, lspc>>
  /\ UNCHANGED <<lsArgVars, nonLsVars>>

\* One turn of the closure of list_index_file, the submodule (if any) opening.
LsIndexEntry ==
  /\ lspc = "run"
  /\ lstack # <<>>
  /\ Head(lstack).kind = "index"
  /\ Head(lstack).entries # <<>>
  /\ LET f == Head(lstack)
         e == Head(f.entries)
         path_str == e.path
     IN
     IF e.kind = "commit"
     THEN /\ lookups' = Append(lookups, [repo |-> f.repo, key |-> path_str, link |-> e.path])
          /\ IF LsFindSubmodule(f.repo, path_str) = {}
             THEN /\ lspc' = "panic: Can't find submodule"
                  /\ UNCHANGED <<lstack, listed>>
             ELSE LET sub == CHOOSE x \in LsFindSubmodule(f.repo, path_str) : TRUE IN
                  /\ lstack' = <<ListCommitFile(sub, None, None)>> \o Advance(lstack)
                  /\ UNCHANGED <<listed, lspc>>
     ELSE /\ listed' = Append(listed, Line(path_str, f.repo, e))
          /\ lstack' = Advance(lstack)
          /\ UNCHANGED <<lookups, lspc>>
  /\ UNCHANGED <<lsArgVars, nonLsVars>>

\* The submodule of the commit link at hand is found and sub.open() fails:
\* expect() panics.
LsOpenFail ==
  /\ lspc = "run"
  /\ lstack # <<>>
  /\ Head(lstack).entries # <<>>
  /\ Head(Head(lstack).entries).kind = "commit"
  /\ LET f == Head(lstack)
         e == Head(f.entries)
         key == IF f.kind = "tree" THEN Extend(f.rel_path_by_repo, e.name) ELSE e.path
     IN
     /\ LsFindSubmodule(f.repo, key) # {}
     /\ lookups' = Append(lookups, [repo |-> f.repo, key |-> key, link |-> e.path])
     /\ lspc' = IF f.kind = "tree"
                THEN "panic: Open submodule failed"
                ELSE "panic: Can't open submodule repo"
  /\ UNCHANGED <<lsArgVars, lstack, listed, nonLsVars>>

\* for_each of list_tree or list_index_file is through: the call returns.
LsReturn ==
  /\ lspc = "run"
  /\ lstack # <<>>
  /\ Head(lstack).entries = <<>>
  /\ lstack' = Tail(lstack)
  /\ UNCHANGED <<lsArgVars, listed, lookups, lspc, nonLsVars>>

\* list_files returns.
LsDone ==
  /\ lspc = "run"
  /\ lstack = <<>>
  /\ lspc' = "done"
  /\ UNCHANGED <<lsArgVars, lstack, listed, lookups, nonLsVars>>

LsPathspecSamples ==
  {LibsGlob, SrcGlob,
   {[dir |-> <<"lib.rs">>, glob |-> FALSE]},
   {[dir |-> <<"libs", "foo">>, glob |-> TRUE], [dir |-> <<"a.rs">>, glob |-> FALSE]}}

\* `git-sub ls-files [--staged | --rev v1] [pathspec]` over every forest of
\* MaxLsRepos repositories.
LsInit ==
  /\ lparent \in {pf \in [2..MaxLsRepos -> LsRepos] : \A r \in 2..MaxLsRepos : pf[r] < r}
  /\ ldir \in [2..MaxLsRepos -> {<<>>, <<"libs">>}]
  /\ \/ lsStaged = TRUE /\ lsRev = None
     \/ lsStaged = FALSE /\ lsRev \in {None, Some("v1")}
  /\ lsPathspec \in {None} \cup {Some(ps) : ps \in LsPathspecSamples}
  /\ lstack = <<>> /\ listed = <<>> /\ lookups = <<>>
  /\ lspc = "start"

LsIdle ==
  /\ lparent = <<>> /\ ldir = <<>>
  /\ lsStaged = FALSE /\ lsRev = None /\ lsPathspec = None
  /\ lstack = <<>> /\ listed = <<>> /\ lookups = <<>>
  /\ lspc = "idle"

\* ------------------------------------------------- claims on ls_files.rs
\* The path of a repository's work directory from the root's.
RECURSIVE MountOf(_)
MountOf(r) == IF r = LsRoot THEN <<>> ELSE MountOf(lparent[r]) \o LsLinkPath(r)

\* C15 as stated: in every mode, a descent into a nested repository carries
\* the repository's full mount path as root-relative accumulator and no
\* repository-relative one, a descent into a directory extends both by the
\* same names; so every line printed is the file's path from the root, and
\* every submodule lookup uses the link's path inside its own repository.
C15_TwoAccumulators ==
  /\ \A i \in DOMAIN lstack :
       lstack[i].kind = "tree" =>
         IF lstack[i].rel_path_by_repo = None
         THEN lstack[i].repo # LsRoot =>
                lstack[i].rel_path_by_root = Some(MountOf(lstack[i].repo))
         ELSE lstack[i].rel_path_by_root =
                Some(MountOf(lstack[i].repo) \o Unwrap(lstack[i].rel_path_by_repo))
  /\ \A i \in DOMAIN listed : listed[i].out = MountOf(listed[i].repo) \o listed[i].path
  /\ \A i \in DOMAIN lookups : lookups[i].key = lookups[i].link

\* The files tracked in the forest under the mode of the run, as (repository,
\* path inside it).
BlobsOf(repo) ==
  LET es == Flatten(TreeOf(repo, IF repo = LsRoot THEN lsRev ELSE None)) IN
  {<<repo, es[i].path>> : i \in {j \in DOMAIN es : es[j].kind = "blob"}}

Tracked == UNION {BlobsOf(r) : r \in LsRepos}

\* C16 as stated: with a pathspec, in every mode, no file is printed whose
\* path from the root does not match it; without one, a run that ends has
\* printed every tracked file.
C16_OnlyMatchingListed ==
  /\ lsPathspec # None =>
       \A i \in DOMAIN listed :
         MatchesPath(Unwrap(lsPathspec), MountOf(listed[i].repo) \o listed[i].path)
  /\ (lsPathspec = None /\ lspc = "done") =>
       {<<listed[i].repo, listed[i].path>> : i \in DOMAIN listed} = Tracked

\* ------------------------------------------------------- claims on log.rs
\* No parent carries a later committer timestamp than its child.
MonotoneTimestamps == \A c \in Commits : \A p \in cparents[c] : ctime[p] <= ctime[c]

C2_NoPairEmittedTwice ==
  \A i, j \in DOMAIN emitted :
    i < j => ~(emitted[i].c = emitted[j].c /\ emitted[i].r = emitted[j].r)

\* The items of the walker's stream that pass every supplied filter.
Filtered == SelectSeq(emitted, Passes)

StartOf == IF argStart = None THEN 0 ELSE Unwrap(argStart)

WindowEnd(len) ==
  IF argNum = None \/ len < StartOf + Unwrap(argNum) THEN len ELSE StartOf + Unwrap(argNum)

\* C4: show_log prints exactly the items at ranks start+1 .. start+num of the
\* walker's stream restricted to the commits that pass every supplied filter,
\* in stream order: everything after the first `start` without --num, nothing
\* with --num 0, and fewer only when the stream ends first.
C4_Pagination ==
  lpc \in {"walk", "done"} =>
    /\ printed = SubSeq(Filtered, StartOf + 1, WindowEnd(Len(Filtered)))
    /\ lpc = "done" =>
         \/ heads = EmptyBag
         \/ argNum # None /\ Len(Filtered) > StartOf + Unwrap(argNum)

\* A finished run with --start 1 --num 2 and a filter that drops a commit: the
\* second and third passing commits were printed.
C4_Witness ==
  /\ lpc = "done"
  /\ argStart = Some(1) /\ argNum = Some(2)
  /\ Len(Filtered) < Len(emitted)
  /\ Len(printed) = 2
  /\ printed[1] = Filtered[2] /\ printed[2] = Filtered[3]

\* The root-relative path at which a repository is mounted.
MountPath(r) == IF r = "root" THEN <<>> ELSE SubMount

\* A changed path, prefixed with the mount path, matches the pathspec: the new
\* path always, the old path too for a rename.
PrefixedDeltaMatches(r, d, pathspec) ==
  \/ MatchesPath(pathspec, MountPath(r) \o d.new)
  \/ d.status = "Renamed" /\ MatchesPath(pathspec, MountPath(r) \o d.old)

\* C8: test_pathspec matches the changed paths of a commit only after prefixing
\* them with the root-relative mount path of the commit's repository (the new
\* path always, the old path too for renames); for the submodule mounted at
\* libs/foo and a commit whose only change lies inside it, "libs/*" matches and
\* "src/*" does not.
C8_PrefixedThenMatched ==
  tpResult # "none" =>
    /\ (tpResult = "true") <=>
         \E p \in cparents[probe.c] : \E d \in cdiff[probe.c][p] :
           PrefixedDeltaMatches(probe.r, d, Unwrap(argPathspec))
    /\ (/\ probe.r = "sub"
        /\ cparents[probe.c] = {1}
        /\ cdiff[probe.c][1] # {}) =>
         /\ argPathspec = Some(LibsGlob) => tpResult = "true"
         /\ argPathspec = Some(SrcGlob) => tpResult = "false"

\* A commit of the submodule that adds src/a.rs inside it was tested against
\* "src/*" and did not match.
C8_Witness ==
  /\ tpResult = "false"
  /\ probe.r = "sub"
  /\ argPathspec = Some(SrcGlob)
  /\ cparents[probe.c] = {1}
  /\ \E d \in cdiff[probe.c][1] : d.new = <<"src", "a.rs">>

\* The entry the last call of CommitsWalker::next returned.
LatestAfter == emitted'[Len(emitted')]

Stepped == Len(emitted') = Len(emitted) + 1

\* C13 as stated: in one call of CommitsWalker::next the only entries that
\* leave the frontier without being emitted are copies of the entry just
\* removed (same commit id, same repository); an entry for another commit or
\* another repository keeps all its copies, whatever its timestamp.
C13_OnlyIdenticalCollapsed ==
  [][Stepped =>
       \A e \in BagToSet(heads) :
         (e.c # LatestAfter.c \/ e.r # LatestAfter.r) =>
            CopiesIn(e, heads') >= CopiesIn(e, heads)]_vars

\* The diff of the probe against one parent has a path that matches after the
\* mount path of the probe's repository is put in front.
DiffersInMatchingPath(p) ==
  \E d \in cdiff[probe.c][p] : PrefixedDeltaMatches(probe.r, d, Unwrap(argPathspec))

\* C14: test_pathspec holds exactly when the commit has a parent against which
\* its tree diff contains a matching path; a merge commit passes when one
\* parent alone shows such a path, and a commit without parents never passes.
C14_SomeParentDiffMatches ==
  tpResult # "none" =>
    /\ (tpResult = "true") <=> (\E p \in cparents[probe.c] : DiffersInMatchingPath(p))
    /\ cparents[probe.c] = {} => tpResult = "false"
    /\ (\E p \in cparents[probe.c] : DiffersInMatchingPath(p)) => tpResult = "true"

\* A merge commit that differs in a matching path from its first parent and in
\* none from its second passed.
C14_Witness ==
  /\ tpResult = "true"
  /\ cparents[probe.c] = {1, 2}
  /\ DiffersInMatchingPath(1)
  /\ cdiff[probe.c][2] # {}
  /\ ~DiffersInMatchingPath(2)

\* C17: every entry a call of CommitsWalker::next adds to the frontier is a
\* parent of the entry the call returned, with that entry's repository and
\* mount path and the parent's own timestamp; and every entry emitted so far
\* carries the repository that holds its commit and that repository's path.
C17_ParentsInheritRepoAndPath ==
  [][Stepped =>
       /\ \A e \in BagToSet(heads') :
            CopiesIn(e, heads') > CopiesIn(e, heads) =>
              /\ e.c \in cparents[LatestAfter.c]
              /\ e.r = LatestAfter.r
              /\ e.p = LatestAfter.p
              /\ e.t = ctime[e.c]
       /\ \A i \in DOMAIN emitted' :
            /\ emitted'[i].r = crepo[emitted'[i].c]
            /\ emitted'[i].p = Workdir(emitted'[i].r)
            /\ emitted'[i].t = ctime[emitted'[i].c]]_vars

\* The walk emitted a commit of the submodule that was not a seed, reached
\* through its child, under the submodule's path.
C17_Witness ==
  /\ \E i, j \in DOMAIN emitted :
       /\ i < j
       /\ emitted[j].r = "sub"
       /\ emitted[j].p = Workdir("sub")
       /\ emitted[j].c \in cparents[emitted[i].c]
       /\ emitted[j].c \notin {e.c : e \in CollectedHeads}
  /\ \E i \in DOMAIN emitted : emitted[i].r = "root"

\* C18: the walk ends: CommitsWalker::next comes to find the frontier empty
\* and returns None, and from then on the frontier stays empty.
C18_WalkTerminates == <>[](lpc = "done" /\ heads = EmptyBag)

\* A finished walk that made more calls than there are commits, over a graph
\* with a merge.
C18_Witness ==
  /\ lpc = "done"
  /\ heads = EmptyBag
  /\ Len(emitted) > MaxCommits
  /\ \E c \in Commits : Cardinality(cparents[c]) = 2

\* The commits reachable through parent links from a commit.
RECURSIVE Ancestry(_)
Ancestry(c) == {c} \cup UNION {Ancestry(p) : p \in cparents[c]}

\* C20 as stated: when the walk has ended, every commit reachable through
\* parent links from a seeded head was emitted at least once.
C20_EveryReachableEmitted ==
  (lpc = "done" /\ heads = EmptyBag) =>
    \A s \in CollectedHeads : \A c \in Ancestry(s.c) :
      \E i \in DOMAIN emitted : emitted[i].c = c /\ emitted[i].r = s.r

\* The repositories the discovery has entered: the root and every submodule
\* it resolved an id in.
Entered == {RevRoot} \cup {resolved[i] : i \in DOMAIN resolved}

\* C19 as stated: the discovery resolves every commit-link entry of the walked
\* trees whatever the directory it lies in: it never fails to find the
\* submodule of an entry, and when it returns, the pinned id of every entry of
\* every tree it entered has been recorded.
C19_EveryLinkResolved ==
  /\ rpc # "panic: Find submodule failed"
  /\ (rpc = "discover" /\ rstack = <<>>) =>
       \A r \in Entered : \A i \in DOMAIN links[r] :
         \E k \in DOMAIN oids : oids[k] = links[r][i].id /\ resolved[k] = links[r][i].sub

\* C3 as stated: when the seeding of show_log --revision pairs the collected
\* ids with the collected repositories, the repository at position i is the one
\* in which discovery resolved the id at position i (the root for the root's
\* revision), so every seeded entry is attributed to that repository, at any
\* nesting depth.
C3_IdsPairedWithTheirRepository ==
  rpc \in {"seeded", "panic: Can't find the commit in submodule"} =>
    /\ \A i \in DOMAIN oids : rrepos[i] = resolved[i]
    /\ rpc = "seeded"
    /\ \A i \in DOMAIN oids : revHeads[i] = [c |-> oids[i], r |-> resolved[i]]

\* ---------------------------------------------------- claims on status.rs
Visited == last # NoVisit

\* The repositories above a repository, its parent first.
RECURSIVE AncestorsOf(_)
AncestorsOf(r) == IF r = StatusRoot THEN {} ELSE {sparent[r]} \cup AncestorsOf(sparent[r])

SeqRange(q) == {q[i] : i \in DOMAIN q}

\* C5: for a submodule at any depth, show_repo_status prints the head-drift
\* lines exactly when the submodule's checked-out commit differs from the id
\* its direct parent records for it, and its block is then printed whatever
\* its two status sets, its state and --all are.
C5_DriftAgainstDirectParentPin ==
  (Visited /\ last.repo # StatusRoot) =>
     /\ last.drift <=> (last.head_id # spin[last.repo])
     /\ (last.head_id # spin[last.repo]) => last.selected

\* A submodule of a submodule drifts, its own sets are empty, --all is off, and
\* no repository above it printed a block: its block is the only one.
C5_Witness ==
  /\ Visited
  /\ last.repo # StatusRoot
  /\ sparent[last.repo] # StatusRoot
  /\ ~sall
  /\ last.index = {} /\ last.wt = {} /\ last.state = "Clean"
  /\ last.head_id # spin[last.repo]
  /\ spin[last.repo] # spin[sparent[last.repo]]
  /\ last.drift /\ last.selected
  /\ blocks = <<last.repo>>

\* C6: show_repo_status runs on every repository of the forest: once a
\* repository was handled, each of its submodules has been handled or is the
\* subject of a call still to make, whether or not the repository's block was
\* printed, and when the outermost call returns every repository was handled
\* exactly once.
C6_EveryRepositoryEvaluated ==
  /\ spc \in {"run", "done"} =>
       \A r \in 2..MaxStatusRepos :
         (sparent[r] \in SeqRange(evaluated)) =>
            \/ r \in SeqRange(evaluated)
            \/ \E i \in DOMAIN sstack : sstack[i].repo = r
  /\ spc = "done" =>
       /\ SeqRange(evaluated) = StatusRepos
       /\ Len(evaluated) = MaxStatusRepos

\* The run ends with every repository handled, the root with a submodule of
\* its own that has one too, and no block printed at all.
C6_Witness ==
  /\ spc = "done"
  /\ ~sall
  /\ blocks = <<>>
  /\ Len(evaluated) = MaxStatusRepos
  /\ \E r \in 2..MaxStatusRepos : sparent[r] # StatusRoot

\* The repository's own entries that pass the diff-category filter.
OwnFiltered(raw) == {e \in raw : ~e.sub /\ DiffFilterTest(sfilter, e.st)}

\* C7 as stated: the block is printed if and only if --all is set, or the
\* repository's staged changes are non-empty after the filter, or its unstaged
\* changes are non-empty after the filter, or its state is not Clean, or its
\* HEAD differs from the pin passed down.
C7_BlockIffAnyCondition ==
  Visited =>
    (last.selected <=>
       \/ sall
       \/ OwnFiltered(last.rawIndex) # {}
       \/ OwnFiltered(last.rawWt) # {}
       \/ last.state # "Clean"
       \/ last.head_id # last.head)

\* C7: the block is printed if and only if --all is set, or the staged
\* changes are non-empty after the filter and --work-tree is not given, or the
\* unstaged changes are non-empty after the filter and --staged is not given,
\* or the state is not Clean, or the HEAD differs from the pin passed down;
\* and no entry of a submodule is in either of the two sets.
C7_BlockIffAnyConditionShown ==
  Visited =>
    /\ last.selected <=>
         \/ sall
         \/ (sshow \in {"Both", "Index"} /\ OwnFiltered(last.rawIndex) # {})
         \/ (sshow \in {"Both", "WorkTree"} /\ OwnFiltered(last.rawWt) # {})
         \/ last.state # "Clean"
         \/ last.head_id # last.head
    /\ \A e \in last.index \cup last.wt : ~e.sub
    /\ last.index \subseteq last.rawIndex
    /\ last.wt \subseteq last.rawWt

\* Under --diff-filter A, a repository below the root whose backend reports
\* changed submodules, staged and unstaged, and one modified file of its own:
\* both sets end empty and no block is printed for it, while an earlier
\* repository of the run did print one.
C7_Witness ==
  /\ Visited
  /\ ~sall
  /\ Len(evaluated) >= 2
  /\ \E e \in last.rawIndex : e.sub
  /\ \E e \in last.rawWt : e.sub
  /\ \E e \in last.rawWt : ~e.sub
  /\ sfilter = DiffFilterFrom(<<"A">>)
  /\ last.index = {} /\ last.wt = {}
  /\ last.state = "Clean"
  /\ last.head_id = last.head
  /\ ~last.selected
  /\ blocks # <<>>

\* C21: for the root the pin is its own HEAD, so show_repo_status never
\* prints the head-drift lines for it, and its block is printed only when
\* --all is set, or its own staged or unstaged changes are non-empty after the
\* filter, or its state is not Clean.
C21_RootNeverDrifts ==
  (Visited /\ last.repo = StatusRoot) =>
    /\ last.head = mainHead
    /\ last.head_id = last.head
    /\ ~last.drift
    /\ last.selected =>
         \/ sall
         \/ OwnFiltered(last.rawIndex) # {}
         \/ OwnFiltered(last.rawWt) # {}
         \/ last.state # "Clean"

\* The root was handled under a filter that rejects its one unstaged
\* modification, clean and without --all: no drift line and no block.
C21_Witness ==
  /\ Visited
  /\ last.repo = StatusRoot
  /\ evaluated = <<StatusRoot>>
  /\ ~sall
  /\ last.state = "Clean"
  /\ last.rawWt # {}
  /\ last.index = {} /\ last.wt = {}
  /\ ~last.drift
  /\ ~last.selected
  /\ blocks = <<>>

\* ---------------------------------------------- claims on every operation
\* The operation has stopped on an error.
StatusFailed == spc = "exit"
LsFailed == lspc \notin {"idle", "start", "run", "done"}
DiscFailed == dpc \notin {"idle", "start", "collect", "collected"}
RevFailed == rpc \notin {"idle", "start", "discover", "seeded"}

\* status: a step on a pending submodule either runs show_repo_status on it or
\* stops the run, leaving the blocks printed, the repositories handled and the
\* calls still pending as they were; the submodule that failed and everything
\* below it were never handled.
StatusStopsAtOpenFailure ==
  /\ (spc = "run" /\ sstack # <<>> /\ evaluated' = evaluated) =>
       /\ StatusFailed'
       /\ sstack' = sstack /\ blocks' = blocks /\ last' = last
       /\ \A r \in StatusRepos :
            (r = Head(sstack).repo \/ Head(sstack).repo \in AncestorsOf(r)) =>
               /\ r \notin SeqRange(evaluated')
               /\ r \notin SeqRange(blocks')
  /\ StatusFailed => UNCHANGED statusVars

\* ls-files: a step on a commit link either enters the submodule or stops the
\* run, leaving the lines printed and the pending iterations as they were.
LsStopsAtOpenFailure ==
  /\ (/\ lspc = "run" /\ lstack # <<>>
      /\ Head(lstack).entries # <<>>
      /\ Head(Head(lstack).entries).kind = "commit"
      /\ ~(/\ Len(lstack') = Len(lstack) + 1
           /\ Head(lstack').repo = Head(Head(lstack).entries).sub)) =>
       /\ LsFailed'
       /\ lstack' = lstack /\ listed' = listed
  /\ LsFailed => UNCHANGED <<lstack, listed, lookups, lspc>>

\* log: a step of collect_submodules on a submodule either opens it (its push
\* is then pending) or stops the run with nothing collected for it.
DiscStopsAtOpenFailure ==
  /\ (/\ dpc = "collect" /\ dstack # <<>>
      /\ Head(dstack).kind = "open"
      /\ ~(\E i \in DOMAIN dstack' :
             dstack'[i] = [kind |-> "push", repo |-> Head(dstack).repo])) =>
       /\ DiscFailed'
       /\ dstack' = dstack /\ repos' = repos
       /\ Head(dstack).repo \notin SeqRange(repos')
  /\ DiscFailed => UNCHANGED <<dstack, repos, dpc>>
  /\ dpc # "collected" => (lpc = "idle" /\ printed = <<>>)

\* log --revision: a step on a commit link either enters the submodule (its
\* push is then pending) or stops the run with the ids and repositories
\* collected so far as they were.
RevStopsAtOpenFailure ==
  /\ (/\ rpc = "discover" /\ rstack # <<>>
      /\ Head(rstack).kind = "entry"
      /\ ~(\E i \in DOMAIN rstack' :
             rstack'[i] = [kind |-> "push", sub |-> Head(rstack).link.sub])) =>
       /\ RevFailed'
       /\ rstack' = rstack /\ oids' = oids /\ rrepos' = rrepos /\ revHeads' = revHeads
  /\ (RevFailed /\ rpc # "panic: Can't find the commit in submodule") =>
       UNCHANGED <<rstack, oids, rrepos, revHeads, rpc>>

\* C12: in status, in the discovery of log and in ls-files, a submodule that
\* does not open stops the run there: nothing is done for it, for what lies
\* below it or for what would have come after it, and what was printed or
\* collected before stays.
C12_OpenFailureStopsTheRun ==
  [][/\ StatusStopsAtOpenFailure
     /\ LsStopsAtOpenFailure
     /\ DiscStopsAtOpenFailure
     /\ RevStopsAtOpenFailure]_vars

\* status stopped on a submodule after a block was printed, with another
\* repository still waiting for its visit behind the one that failed.
C12_Witness ==
  /\ StatusFailed
  /\ blocks # <<>>
  /\ Len(sstack) >= 2
  /\ Head(sstack).repo \notin SeqRange(evaluated)
  /\ sstack[2].repo \notin SeqRange(evaluated)

\* ---------------------------------------------------------- specifications
\* The walker under `git-sub log [--all]`, every forest.
Init == WalkInit /\ DfIdle /\ RevIdle /\ StatusIdle /\ LsIdle

Next == CollectHeads \/ LogPull \/ LogEnd

Spec == Init /\ [][Next]_vars

\* The same, with the loop of for_each pulling as long as it can.
SpecFair == Init /\ [][Next]_vars /\ WF_vars(Next)

\* The iterator chain of show_log, every combination of filters and paging.
InitLog == PipelineInit /\ DfIdle /\ RevIdle /\ StatusIdle /\ LsIdle

SpecLog == InitLog /\ [][Next]_vars

\* test_pathspec on one commit, every sample diff and pathspec.
InitPath == PathInit /\ DfIdle /\ RevIdle /\ StatusIdle /\ LsIdle

NextPath == TestPathspecCall

SpecPath == InitPath /\ [][NextPath]_vars

\* show_log --revision up to the seeding of the walker, every forest.
InitRev == RevInit /\ LogIdle /\ DfIdle /\ StatusIdle /\ LsIdle

NextRev == RevStart \/ RevEntry \/ RevOpenFail \/ RevReturn \/ RevSeed

SpecRev == InitRev /\ [][NextRev]_vars

\* `git-sub status` over every forest.
InitStatus == StatusInit /\ LogIdle /\ RevIdle /\ DfIdle /\ LsIdle

NextStatus == StatusStart \/ StatusVisit \/ StatusOpenFail \/ StatusDone

SpecStatus == InitStatus /\ [][NextStatus]_vars

\* Every operation over every forest, a submodule failing to open at any point.
InitOpen ==
  \/ StatusInit /\ LogIdle /\ RevIdle /\ DfIdle /\ LsIdle
  \/ LsInit /\ DfIdle /\ LogIdle /\ RevIdle /\ StatusIdle
  \/ RevInit /\ LogIdle /\ DfIdle /\ StatusIdle /\ LsIdle
  \/ DiscInit /\ DfIdle /\ RevIdle /\ StatusIdle /\ LsIdle

NextOpen ==
  \/ StatusStart \/ StatusVisit \/ StatusOpenFail \/ StatusDone
  \/ LsStart \/ LsTreeEntry \/ LsIndexEntry \/ LsOpenFail \/ LsReturn \/ LsDone
  \/ RevStart \/ RevEntry \/ RevOpenFail \/ RevReturn \/ RevSeed
  \/ DiscStart \/ DiscOpen \/ DiscOpenFail \/ DiscPush \/ DiscDone

SpecOpen == InitOpen /\ [][NextOpen]_vars

\* `git-sub ls-files` over every forest.
InitLs == LsInit /\ DfIdle /\ LogIdle /\ RevIdle /\ StatusIdle

NextLs == LsStart \/ LsTreeEntry \/ LsIndexEntry \/ LsOpenFail \/ LsReturn \/ LsDone

SpecLs == InitLs /\ [][NextLs]_vars

\* DiffFilter::test on every filter.
InitTest == TestInit /\ LogIdle /\ RevIdle /\ StatusIdle /\ LsIdle

NextTest == TestCall

SpecTest == InitTest /\ [][NextTest]_vars

\* The diff filter's constructors.
InitFilter == DfInit /\ LogIdle /\ RevIdle /\ StatusIdle /\ LsIdle

NextFilter == BuildFrom \/ BuildDefault

SpecFilter == InitFilter /\ [][NextFilter]_vars

====
